---- MODULE Spec2Model ----
(***************************************************************************)
(* Model of src/bot.py: the /sendmessage command of the bot and the three  *)
(* interactive prompts it chains (channel select -> title/body modal ->    *)
(* role select with send/skip buttons).                                    *)
(*                                                                         *)
(* A flow is one invocation of send_message_command.  Every coroutine of   *)
(* the source is cut at its await points that wait for the user or for the *)
(* delivery (message_modal.wait(), channel.send); the code between two     *)
(* such points is one action.                                              *)
(*                                                                         *)
(* The gateway library is the environment.  It decides                     *)
(*   - which callbacks are dispatched and when (only to a view that is     *)
(*     not finished), and when a view reaches its timeout;                 *)
(*   - the outcome of the two gateway calls inside the try block of       *)
(*     send_message_action, channel.send and the confirmation (every      *)
(*     other gateway call is taken to succeed);                           *)
(*   - which namespace the interaction handed to a callback carries: the   *)
(*     one send_message_command created for the flow (shared = TRUE) or    *)
(*     one of its own (shared = FALSE).  Attributes written to an own      *)
(*     namespace are never read again; reading a missing attribute         *)
(*     raises, and hasattr on it is false;                                 *)
(*   - whether client.get_channel resolves the selected channel (found):   *)
(*     a channel leaves the cache when it is deleted or while the guild is *)
(*     unavailable.                                                        *)
(*                                                                         *)
(* The source keeps no stage field.  stage records, per flow, the step the *)
(* code took last: AwaitingChannel when the channel prompt is sent         *)
(* (l.184), AwaitingForm when a modal is sent (l.151), AwaitingRoles when  *)
(* a role prompt is sent (l.161), Completed when the confirmation is sent  *)
(* (l.108), Aborted when an error is reported (l.97, 110, 112, 164).       *)
(***************************************************************************)
EXTENDS Integers, Sequences, FiniteSets, Bags, TLC

\* ------------------------------------------------------------- bounds
\* channel selections plus send / skip clicks dispatched, all flows together
MaxEvents == 3

\* --------------------------------------------------------- the guild
Flows == {"f1", "f2"}
Channels == {"general", "logs"}
Everyone == "@everyone"
Roles == {"mods", "devs"}
\* values a required TextInput can carry (one character is enough to
\* tell a blank text from a non-blank one)
Texts == {<<" ">>, <<"M">>}
None == "None"
\* the guilds considered: no, one or two sendable channels; no, one or two roles
GuildChannelSets == {{}, {"general"}, {"general", "logs"}}
GuildRoleSets == {{}, {"mods"}, {"mods", "devs"}}

VARIABLES
  flows,       \* the invocations this behaviour may make
  sendable,    \* text channels in which the bot may send (guild state)
  guildRoles,  \* interaction.guild.roles without the implicit role
  ns,          \* per flow: the namespace created by send_message_command
  cview,       \* per flow: the ChannelSelectView
  sel,         \* per flow: the channel_select_callback coroutines
  rview,       \* per flow: the RoleSelectView each coroutine created
  act,         \* per flow: send_message_action coroutines awaiting channel.send
  clicks,      \* per flow: number of send/skip clicks dispatched
  out,         \* per flow: what the invoking user was shown (a bag)
  delivered,   \* messages delivered to channels (a bag)
  raised,      \* per flow: callbacks an exception escaped from
  stage        \* per flow: the step whose handler acted last

vars == <<flows, sendable, guildRoles, ns, cview, sel, rview, act,
          clicks, out, delivered, raised, stage>>

guild == <<sendable, guildRoles>>

\* ------------------------------------------------------ pure helpers
\* a message shown to the invoking user: its kind and what it names
Msg(kind, arg) == [kind |-> kind, arg |-> arg]
Plain(kind) == Msg(kind, {})

Put(bag, x) == bag (+) SetToBag({x})

\* an attribute the namespace does not have (no text input is empty)
Unset == <<>>
EmptyNamespace == [selected_channel_id |-> None, msg_title |-> Unset, body |-> Unset]

hasattr(namespace, shared, attr) == shared /\ namespace[attr] # Unset

NoView == [state |-> "none", options |-> {}, selected_channel_id |-> None]

NoRoleView == [state |-> "none", options |-> {}, selected_channel_id |-> None,
               selected_roles |-> <<>>, feedback |-> None]

\* ChannelSelectView.__init__: one option per text channel, or the placeholder
ChannelOptions(text_channels) ==
  IF text_channels = {} THEN {"no_channels"} ELSE text_channels

\* RoleSelectView.__init__: one option per role except @everyone, or the placeholder
\* mutant: the `if role.name != "@everyone"` filter is missing
RoleOptions_Unfiltered(guild_roles) ==
  IF guild_roles = {} THEN {"no_roles"} ELSE guild_roles

RoleOptions(guild_roles) ==
  LET named == {r \in guild_roles : r # Everyone}
  IN  IF named = {} THEN {"no_roles"} ELSE named

max_values(role_options) ==
  IF "no_roles" \in role_options THEN 1 ELSE Cardinality(role_options)

\* the lists of distinct values a select with these options can report
Values(options, most) ==
  {s \in UNION {[1..n -> options] : n \in 1..most} :
     \A i, j \in DOMAIN s : i # j => s[i] # s[j]}

\* send_message_action: "<@&id>" per role, joined; content=None (the empty
\* list of tokens) when there is no role
MentionToken(role) == <<"<@&", role, ">">>
NoContent == <<>>

\* mutant: the join repeats the token of the last role
RoleMentions_LastTwice(roles_to_mention) ==
  IF roles_to_mention = <<>> THEN NoContent
  ELSE [i \in 1..(Len(roles_to_mention) + 1) |->
          MentionToken(roles_to_mention[IF i > Len(roles_to_mention)
                                          THEN Len(roles_to_mention) ELSE i])]

RoleMentions(roles_to_mention) ==
  IF roles_to_mention = <<>> THEN NoContent
  ELSE [i \in DOMAIN roles_to_mention |-> MentionToken(roles_to_mention[i])]

Embed(msg_title, body) == [title |-> msg_title, description |-> body]

Live(view) == view.state = "live"

\* the events dispatched so far: channel selections and send / skip clicks
RECURSIVE EventsOf(_)
EventsOf(fs) ==
  IF fs = {} THEN 0
  ELSE LET f == CHOOSE x \in fs : TRUE
       IN  Len(sel[f]) + clicks[f] + EventsOf(fs \ {f})

Events == EventsOf(Flows)

\* ---------------------------------------------------------------- Init
InitFlow ==
  /\ ns = [f \in Flows |-> EmptyNamespace]
  /\ cview = [f \in Flows |-> NoView]
  /\ sel = [f \in Flows |-> <<>>]
  /\ rview = [f \in Flows |-> <<>>]
  /\ act = [f \in Flows |-> EmptyBag]
  /\ clicks = [f \in Flows |-> 0]
  /\ out = [f \in Flows |-> EmptyBag]
  /\ delivered = EmptyBag
  /\ raised = [f \in Flows |-> {}]
  /\ stage = [f \in Flows |-> "NotStarted"]

Init ==
  /\ flows = {"f1"}
  /\ sendable \in GuildChannelSets
  /\ guildRoles \in GuildRoleSets
  /\ InitFlow

\* ------------------------------------------------ send_message_command
\* mutant: the `if not text_channels` return is missing
send_message_command_Unchecked(f, inGuild) ==
  /\ f \in flows
  /\ stage[f] = "NotStarted" /\ out[f] = EmptyBag
  /\ IF ~inGuild
       THEN /\ out' = [out EXCEPT ![f] = Put(@, Plain("NotInGuild"))]
            /\ UNCHANGED <<ns, cview, stage>>
       ELSE /\ ns' = [ns EXCEPT ![f] = EmptyNamespace]
            /\ cview' = [cview EXCEPT ![f] =
                           [state |-> "live", options |-> ChannelOptions(sendable),
                            selected_channel_id |-> None]]
            /\ out' = [out EXCEPT ![f] = Put(@, Msg("ChannelPrompt", ChannelOptions(sendable)))]
            /\ stage' = [stage EXCEPT ![f] = "AwaitingChannel"]
  /\ UNCHANGED <<flows, guild, sel, rview, act, clicks, delivered, raised>>

send_message_command(f, inGuild) ==
  /\ f \in flows
  /\ stage[f] = "NotStarted" /\ out[f] = EmptyBag
  /\ IF ~inGuild
       THEN /\ out' = [out EXCEPT ![f] = Put(@, Plain("NotInGuild"))]
            /\ UNCHANGED <<ns, cview, stage>>
     ELSE IF sendable = {}
       THEN /\ out' = [out EXCEPT ![f] = Put(@, Plain("NoEligibleChannels"))]
            /\ UNCHANGED <<ns, cview, stage>>
     ELSE /\ ns' = [ns EXCEPT ![f] = EmptyNamespace]
          /\ cview' = [cview EXCEPT ![f] =
                         [state |-> "live", options |-> ChannelOptions(sendable),
                          selected_channel_id |-> None]]
          /\ out' = [out EXCEPT ![f] = Put(@, Msg("ChannelPrompt", ChannelOptions(sendable)))]
          /\ stage' = [stage EXCEPT ![f] = "AwaitingChannel"]
  /\ UNCHANGED <<flows, guild, sel, rview, act, clicks, delivered, raised>>

\* ---------------------- ChannelSelectView.channel_select_callback, part 1
\* from the dispatch to `await message_modal.wait()`
channel_select_callback(f, value, shared) ==
  /\ Live(cview[f])
  /\ Events < MaxEvents
  /\ value \in cview[f].options
  /\ IF value = "no_channels"
       THEN /\ out' = [out EXCEPT ![f] = Put(@, Plain("NoTextChannels"))]
            /\ cview' = [cview EXCEPT ![f].state = "finished"]
            /\ UNCHANGED <<ns, sel, rview, stage>>
       ELSE /\ cview' = [cview EXCEPT ![f].selected_channel_id = value]
            /\ ns' = IF shared
                       THEN [ns EXCEPT ![f].selected_channel_id = value]
                       ELSE ns
            /\ out' = [out EXCEPT ![f] = Put(@, Plain("Modal"))]
            /\ sel' = [sel EXCEPT ![f] =
                         Append(@, [shared |-> shared, modal |-> "open", pc |-> "wait"])]
            /\ rview' = [rview EXCEPT ![f] = Append(@, NoRoleView)]
            /\ stage' = [stage EXCEPT ![f] = "AwaitingForm"]
  /\ UNCHANGED <<flows, guild, act, clicks, delivered, raised>>

\* -------------------------------------------------- MessageModal.on_submit
\* mutant: title and body are kept in one module-level namespace
on_submit_Global(f, k, title, body, shared) ==
  /\ k \in DOMAIN sel[f]
  /\ sel[f][k].modal = "open"
  /\ ns' = IF shared
             THEN [g \in Flows |-> [ns[g] EXCEPT !.msg_title = title, !.body = body]]
             ELSE ns
  /\ sel' = [sel EXCEPT ![f][k].modal = "submitted"]
  /\ UNCHANGED <<flows, guild, cview, rview, act, clicks, out, delivered, raised, stage>>

on_submit(f, k, title, body, shared) ==
  /\ k \in DOMAIN sel[f]
  /\ sel[f][k].modal = "open"
  /\ ns' = IF shared
             THEN [ns EXCEPT ![f].msg_title = title, ![f].body = body]
             ELSE ns
  /\ sel' = [sel EXCEPT ![f][k].modal = "submitted"]
  /\ UNCHANGED <<flows, guild, cview, rview, act, clicks, out, delivered, raised, stage>>

\* ---------------------- ChannelSelectView.channel_select_callback, part 2
\* from the return of message_modal.wait() to the end
channel_select_resume(f, k) ==
  /\ k \in DOMAIN sel[f]
  /\ sel[f][k].pc = "wait" /\ sel[f][k].modal = "submitted"
  /\ IF /\ hasattr(ns[f], sel[f][k].shared, "msg_title")
        /\ hasattr(ns[f], sel[f][k].shared, "body")
       THEN /\ rview' = [rview EXCEPT ![f][k] =
                           [state |-> "live",
                            options |-> RoleOptions(guildRoles \cup {Everyone}),
                            selected_channel_id |-> cview[f].selected_channel_id,
                            selected_roles |-> <<>>,
                            feedback |-> None]]
            /\ out' = [out EXCEPT ![f] =
                         Put(@, Msg("RolePrompt", RoleOptions(guildRoles \cup {Everyone})))]
            /\ stage' = [stage EXCEPT ![f] = "AwaitingRoles"]
       ELSE /\ out' = [out EXCEPT ![f] = Put(@, Plain("FailedContent"))]
            /\ stage' = [stage EXCEPT ![f] = "Aborted"]
            /\ UNCHANGED rview
  /\ cview' = [cview EXCEPT ![f].state = "finished"]
  /\ sel' = [sel EXCEPT ![f][k].pc = "done"]
  /\ UNCHANGED <<flows, guild, ns, act, clicks, delivered, raised>>

\* --------------------------------------- RoleSelectView.role_select_callback
\* mutant: a selection is added to the roles selected before
role_select_callback_Accumulates(f, k, values) ==
  /\ k \in DOMAIN rview[f]
  /\ Live(rview[f][k])
  /\ values \in Values(rview[f][k].options, max_values(rview[f][k].options))
  /\ rview' = IF \E i \in DOMAIN values : values[i] = "no_roles"
                THEN [rview EXCEPT ![f][k].selected_roles = <<>>,
                                   ![f][k].feedback = "NoRolesSelected"]
                ELSE [rview EXCEPT ![f][k].selected_roles = @ \o values,
                                   ![f][k].feedback = "SelectedRoles"]
  /\ UNCHANGED <<flows, guild, ns, cview, sel, act, clicks, out, delivered, raised, stage>>

role_select_callback(f, k, values) ==
  /\ k \in DOMAIN rview[f]
  /\ Live(rview[f][k])
  /\ values \in Values(rview[f][k].options, max_values(rview[f][k].options))
  /\ rview' = IF \E i \in DOMAIN values : values[i] = "no_roles"
                THEN [rview EXCEPT ![f][k].selected_roles = <<>>,
                                   ![f][k].feedback = "NoRolesSelected"]
                ELSE [rview EXCEPT ![f][k].selected_roles = values,
                                   ![f][k].feedback = "SelectedRoles"]
  /\ UNCHANGED <<flows, guild, ns, cview, sel, act, clicks, out, delivered, raised, stage>>

\* --------------------------------- RoleSelectView.send_message_action, part 1
\* from the dispatch of the click to `await channel.send(...)`
send_message_action(f, k, roles_to_mention, shared, found) ==
  /\ k \in DOMAIN rview[f]
  /\ Live(rview[f][k])
  /\ Events < MaxEvents
  /\ clicks' = [clicks EXCEPT ![f] = @ + 1]
  /\ IF ~hasattr(ns[f], shared, "msg_title") \/ ~hasattr(ns[f], shared, "body")
       THEN \* interaction.namespace.msg_title raises AttributeError
            /\ raised' = [raised EXCEPT ![f] = @ \cup {"send_message_action"}]
            /\ UNCHANGED <<act, out, stage>>
     ELSE IF ~found  \* client.get_channel gives no TextChannel
       THEN /\ out' = [out EXCEPT ![f] = Put(@, Plain("ChannelNotFound"))]
            /\ stage' = [stage EXCEPT ![f] = "Aborted"]
            /\ UNCHANGED <<act, raised>>
     ELSE /\ act' = [act EXCEPT ![f] =
                       Put(@, [view |-> k,
                                  channel |-> rview[f][k].selected_channel_id,
                                  content |-> RoleMentions(roles_to_mention),
                                  embed |-> Embed(ns[f].msg_title, ns[f].body)])]
          /\ UNCHANGED <<out, raised, stage>>
  /\ UNCHANGED <<flows, guild, ns, cview, sel, rview, delivered>>

send_button_callback(f, k, shared, found) ==
  /\ k \in DOMAIN rview[f]
  /\ send_message_action(f, k, rview[f][k].selected_roles, shared, found)

\* mutant: skip passes the selected roles as send does
skip_button_callback_KeepsRoles(f, k, shared, found) ==
  /\ k \in DOMAIN rview[f]
  /\ send_message_action(f, k, rview[f][k].selected_roles, shared, found)

skip_button_callback(f, k, shared, found) ==
  /\ k \in DOMAIN rview[f]
  /\ send_message_action(f, k, <<>>, shared, found)

\* --------------------------------- RoleSelectView.send_message_action, part 2
\* from the return of channel.send to the end.  result is what channel.send
\* did and confirm what the send_message of the confirmation did.

\* mutant: the `except discord.Forbidden` clause is missing
Handler_NoForbiddenClause(result, confirm) ==
  IF result # "ok" THEN "Exception"
  ELSE IF confirm # "ok" THEN "Exception"
  ELSE "none"

\* the except clause the try block ends in ("none": no exception)
Handler(result, confirm) ==
  IF result # "ok" THEN result
  ELSE IF confirm # "ok" THEN confirm
  ELSE "none"

\* the exception the handler reports: raised by channel.send or by the reply
Cause(result) == IF result = "ok" THEN "reply failed" ELSE "send failed"

\* what the invoking user is told at the end of the try statement
Reply(result, confirm, channel) ==
  IF Handler(result, confirm) = "none" THEN Msg("Confirmation", {channel})
  ELSE IF Handler(result, confirm) = "Forbidden" THEN Plain("PermissionDenied")
  ELSE Msg("DeliveryError", {Cause(result)})

\* mutant: self.stop() is missing
StopRoleView_Missing(views, k) == views

\* self.stop() of a RoleSelectView
StopRoleView(views, k) == [views EXCEPT ![k].state = "finished"]

send_message_action_resume(f, a, result, confirm) ==
  /\ BagIn(a, act[f])
  /\ delivered' = IF result = "ok"
                    THEN Put(delivered, [flow |-> f, channel |-> a.channel,
                                         content |-> a.content, embed |-> a.embed])
                    ELSE delivered
  /\ out' = [out EXCEPT ![f] = Put(@, Reply(result, confirm, a.channel))]
  /\ stage' = [stage EXCEPT ![f] =
                 IF Handler(result, confirm) = "none" THEN "Completed" ELSE "Aborted"]
  /\ rview' = [rview EXCEPT ![f] = StopRoleView(@, a.view)]
  /\ act' = [act EXCEPT ![f] = @ (-) SetToBag({a})]
  /\ UNCHANGED <<flows, guild, ns, cview, sel, clicks, raised>>

\* --------------------------------------------------------- the environment
\* ui.View(timeout=180): no interaction for 180 s finishes the view; on_timeout
\* is not overridden.  The modal has no timeout.
TIMEOUT == 180

channel_view_timeout(f) ==
  /\ Live(cview[f])
  /\ cview' = [cview EXCEPT ![f].state = "finished"]
  /\ UNCHANGED <<flows, guild, ns, sel, rview, act, clicks, out, delivered, raised, stage>>

role_view_timeout(f, k) ==
  /\ k \in DOMAIN rview[f]
  /\ Live(rview[f][k])
  /\ rview' = [rview EXCEPT ![f] = StopRoleView(@, k)]
  /\ UNCHANGED <<flows, guild, ns, cview, sel, act, clicks, out, delivered, raised, stage>>

Slots == 1..MaxEvents
Results == {"ok", "Forbidden", "Exception"}

Next ==
  \/ \E f \in Flows, inGuild \in BOOLEAN : send_message_command(f, inGuild)
  \/ \E f \in Flows, value \in Channels \cup {"no_channels"}, shared \in BOOLEAN :
       channel_select_callback(f, value, shared)
  \/ \E f \in Flows, k \in Slots, title \in Texts, body \in Texts, shared \in BOOLEAN :
       on_submit(f, k, title, body, shared)
  \/ \E f \in Flows, k \in Slots : channel_select_resume(f, k)
  \/ \E f \in Flows, k \in Slots :
       \E values \in Values(Roles \cup {"no_roles"}, Cardinality(Roles)) :
         role_select_callback(f, k, values)
  \/ \E f \in Flows, k \in Slots, shared \in BOOLEAN, found \in BOOLEAN :
       send_button_callback(f, k, shared, found)
  \/ \E f \in Flows, k \in Slots, shared \in BOOLEAN, found \in BOOLEAN :
       skip_button_callback(f, k, shared, found)
  \/ \E f \in Flows, result \in Results, confirm \in Results :
       \E a \in BagToSet(act[f]) : send_message_action_resume(f, a, result, confirm)
  \/ \E f \in Flows : channel_view_timeout(f)
  \/ \E f \in Flows, k \in Slots : role_view_timeout(f, k)

Spec == Init /\ [][Next]_vars

\* the same bot in the guilds with at most one sendable channel and one role
InitOneChannel ==
  /\ flows = {"f1"}
  /\ sendable \in {{}, {"general"}}
  /\ guildRoles \in {{}, {"mods"}}
  /\ InitFlow

SpecOneChannel == InitOneChannel /\ [][Next]_vars

\* the role prompt on its own: the states in which channel_select_resume has
\* just presented the role prompt of a flow with one channel selection and a
\* form found in the flow's namespace (each of them a state Spec reaches),
\* and the callbacks that can still be dispatched from there
InitRolePrompt ==
  /\ flows = {"f1"}
  /\ sendable = {"general"}
  /\ guildRoles \in GuildRoleSets
  /\ \E title \in Texts, body \in Texts :
       ns = [f \in Flows |->
               IF f \in flows
                 THEN [selected_channel_id |-> "general", msg_title |-> title, body |-> body]
                 ELSE EmptyNamespace]
  /\ cview = [f \in Flows |->
               IF f \in flows
                 THEN [state |-> "finished", options |-> ChannelOptions(sendable),
                       selected_channel_id |-> "general"]
                 ELSE NoView]
  /\ sel = [f \in Flows |->
             IF f \in flows
               THEN <<[shared |-> TRUE, modal |-> "submitted", pc |-> "done"]>>
               ELSE <<>>]
  /\ rview = [f \in Flows |->
               IF f \in flows
                 THEN <<[state |-> "live",
                         options |-> RoleOptions(guildRoles \cup {Everyone}),
                         selected_channel_id |-> "general",
                         selected_roles |-> <<>>,
                         feedback |-> None]>>
                 ELSE <<>>]
  /\ act = [f \in Flows |-> EmptyBag]
  /\ clicks = [f \in Flows |-> 0]
  /\ out = [f \in Flows |->
             IF f \in flows
               THEN SetToBag({Msg("ChannelPrompt", ChannelOptions(sendable)), Plain("Modal"),
                              Msg("RolePrompt", RoleOptions(guildRoles \cup {Everyone}))})
               ELSE EmptyBag]
  /\ delivered = EmptyBag
  /\ raised = [f \in Flows |-> {}]
  /\ stage = [f \in Flows |-> IF f \in flows THEN "AwaitingRoles" ELSE "NotStarted"]

NextRolePrompt ==
  \/ \E f \in Flows, k \in Slots :
       \E values \in Values(Roles \cup {"no_roles"}, Cardinality(Roles)) :
         role_select_callback(f, k, values)
  \/ \E f \in Flows, k \in Slots, shared \in BOOLEAN, found \in BOOLEAN :
       send_button_callback(f, k, shared, found)
  \/ \E f \in Flows, k \in Slots, shared \in BOOLEAN, found \in BOOLEAN :
       skip_button_callback(f, k, shared, found)
  \/ \E f \in Flows, result \in Results, confirm \in Results :
       \E a \in BagToSet(act[f]) : send_message_action_resume(f, a, result, confirm)
  \/ \E f \in Flows, k \in Slots : role_view_timeout(f, k)

SpecRolePrompt == InitRolePrompt /\ [][NextRolePrompt]_vars

\* two invocations of the command in one guild
InitTwoFlows ==
  /\ flows = Flows
  /\ sendable = {"general", "logs"}
  /\ guildRoles = {}
  /\ InitFlow

SpecTwoFlows == InitTwoFlows /\ [][Next]_vars

\* ================================================================ claims
Terminal == {"Completed", "Aborted"}

\* the transitions of the state machine; Aborted may follow every
\* stage that is not terminal
Forward ==
  {<<"NotStarted", "AwaitingChannel">>, <<"AwaitingChannel", "AwaitingForm">>,
   <<"AwaitingForm", "AwaitingRoles">>, <<"AwaitingRoles", "Completed">>,
   <<"AwaitingChannel", "Aborted">>, <<"AwaitingForm", "Aborted">>,
   <<"AwaitingRoles", "Aborted">>}

\* number of messages flow f delivered to channels
Deliveries(f) ==
  BagCardinality([m \in {x \in BagToSet(delivered) : x.flow = f} |-> delivered[m]])

TerminalKinds ==
  {"NoEligibleChannels", "NoTextChannels", "FailedContent", "ChannelNotFound",
   "Confirmation", "PermissionDenied", "DeliveryError"}

\* number of terminal responses (confirmation or error) flow f showed
TerminalResponses(f) ==
  BagCardinality([m \in {x \in BagToSet(out[f]) : x.kind \in TerminalKinds} |-> out[f][m]])

\* number of form and role prompts flow f presented
Prompts(f) ==
  BagCardinality([m \in {x \in BagToSet(out[f]) : x.kind \in {"Modal", "RolePrompt"}}
                    |-> out[f][m]])

InvokedInGuild(f) == out[f] # EmptyBag /\ ~BagIn(Plain("NotInGuild"), out[f])

\* no prompt of the flow is live and none of its coroutines is pending
Quiet(f) ==
  /\ ~Live(cview[f])
  /\ \A k \in DOMAIN rview[f] : ~Live(rview[f][k])
  /\ \A k \in DOMAIN sel[f] : sel[f][k].pc = "done"
  /\ act[f] = EmptyBag

\* the flow state of the specification's data model
FlowData(f) ==
  <<cview[f].selected_channel_id, ns[f].msg_title, ns[f].body, stage[f],
    [k \in DOMAIN rview[f] |-> rview[f][k].selected_roles]>>

Same(f) == FlowData(f)' = FlowData(f) /\ Prompts(f)' = Prompts(f)

\* text with the leading and trailing blanks removed
RECURSIVE LStrip(_)
LStrip(t) == IF t # <<>> /\ Head(t) = " " THEN LStrip(Tail(t)) ELSE t

RECURSIVE RStrip(_)
RStrip(t) ==
  IF t # <<>> /\ t[Len(t)] = " " THEN RStrip(SubSeq(t, 1, Len(t) - 1)) ELSE t

Trim(t) == RStrip(LStrip(t))

\* a submitted text that is empty after trimming
Blank(t) == t # Unset /\ Trim(t) = <<>>

\* C1: the stage of a flow only moves along the transitions of the state
\* machine AwaitingChannel -> AwaitingForm -> AwaitingRoles -> {Completed |
\* Aborted}: never back, never into a stage already left, never past a stage.
C1_StageForwardOnly ==
  [][\A f \in Flows : stage'[f] # stage[f] => <<stage[f], stage'[f]>> \in Forward]_vars

\* C2: a callback dispatched while the flow is in another stage than the one
\* the callback belongs to changes nothing of the flow state (selected channel,
\* title, body, selected roles, stage) and presents no form or role prompt.
C2_StaleCallbackRejected ==
  [][\A f \in Flows :
       /\ ( /\ stage[f] # "AwaitingChannel"
            /\ \E value \in Channels, shared \in BOOLEAN :
                 channel_select_callback(f, value, shared) ) => Same(f)
       /\ ( /\ stage[f] # "AwaitingForm"
            /\ \E k \in Slots, title \in Texts, body \in Texts, shared \in BOOLEAN :
                 on_submit(f, k, title, body, shared) ) => Same(f)
       /\ ( /\ stage[f] # "AwaitingRoles"
            /\ \E k \in Slots, shared \in BOOLEAN, found \in BOOLEAN :
                 \/ send_button_callback(f, k, shared, found)
                 \/ skip_button_callback(f, k, shared, found) ) => Same(f)
    ]_vars

\* C3: a flow delivers at most one message to the channel, whatever the
\* interleaving of its send and skip clicks.
C3_SingleShot == \A f \in Flows : Deliveries(f) <= 1

\* C4: a flow invoked in a guild shows exactly one terminal response: never
\* more than one, and one once nothing of the flow is live or pending.
C4_ExactlyOneTerminalResponse ==
  \A f \in Flows :
    InvokedInGuild(f) =>
      /\ TerminalResponses(f) <= 1
      /\ Quiet(f) => TerminalResponses(f) = 1

\* C5: in a flow with one channel selection c, one submitted form (t, b) that
\* is not blank and one click, once the delivery succeeded: one message is
\* delivered, to c, with title t and body b, the user is shown the
\* confirmation naming c, and the stage is Completed.
C5_HappyPath ==
  \A f \in Flows :
    ( /\ Len(sel[f]) = 1 /\ clicks[f] = 1 /\ act[f] = EmptyBag
      /\ ~Blank(ns[f].msg_title) /\ ~Blank(ns[f].body)
      /\ Deliveries(f) >= 1 ) =>
      /\ Deliveries(f) = 1
      /\ \A m \in BagToSet(delivered) :
           m.flow = f =>
             /\ m.channel = cview[f].selected_channel_id
             /\ m.embed = Embed(ns[f].msg_title, ns[f].body)
      /\ BagIn(Msg("Confirmation", {cview[f].selected_channel_id}), out[f])
      /\ stage[f] = "Completed"

\* C6: a flow does not stay in AwaitingForm once the idle window of its
\* prompt has expired: in AwaitingForm either the timer of the channel prompt
\* is still running or a submitted form is about to be taken up.
C6_IdleFormAborts ==
  \A f \in Flows :
    stage[f] = "AwaitingForm" =>
      \/ Live(cview[f])
      \/ \E k \in DOMAIN sel[f] : sel[f][k].pc = "wait" /\ sel[f][k].modal = "submitted"

\* C7: when channel.send fails with Forbidden, the user is shown
\* PermissionDenied, the stage is Aborted, the role prompt is finished and
\* stays finished, nothing is delivered and no other delivery is started.
C7_PermissionDenied ==
  [][\A f \in Flows :
       /\ \A a \in BagToSet(act[f]), confirm \in Results :
            send_message_action_resume(f, a, "Forbidden", confirm) =>
              /\ out'[f] = Put(out[f], Plain("PermissionDenied"))
              /\ stage'[f] = "Aborted"
              /\ ~Live(rview'[f][a.view])
              /\ delivered' = delivered
              /\ BagCardinality(act'[f]) < BagCardinality(act[f])
              /\ raised' = raised
       /\ \A k \in DOMAIN rview[f] :
            rview[f][k].state = "finished" => rview'[f][k].state = "finished"
    ]_vars

C7_Witness ==
  \E f \in Flows :
    /\ BagIn(Plain("PermissionDenied"), out[f])
    /\ Deliveries(f) = 0
    /\ stage[f] = "Aborted"

\* C8: when channel.send fails with any other exception, the user is shown
\* DeliveryError with the cause, the stage is Aborted, the role prompt is
\* finished, and no exception escapes the callback.
C8_DeliveryError ==
  [][\A f \in Flows :
       \A a \in BagToSet(act[f]), confirm \in Results :
         send_message_action_resume(f, a, "Exception", confirm) =>
           /\ out'[f] = Put(out[f], Msg("DeliveryError", {"send failed"}))
           /\ stage'[f] = "Aborted"
           /\ ~Live(rview'[f][a.view])
           /\ delivered' = delivered
           /\ raised' = raised
    ]_vars

C8_Witness ==
  \E f \in Flows :
    /\ BagIn(Msg("DeliveryError", {"send failed"}), out[f])
    /\ stage[f] = "Aborted"
    /\ raised[f] = {}

\* C9: a title or body that is empty after trimming is never stored.
C9_BlankRejected ==
  \A f \in Flows : ~Blank(ns[f].msg_title) /\ ~Blank(ns[f].body)

\* C10: a flow started in a guild without a sendable text channel shows
\* NoEligibleChannels and nothing else, has no flow state and no prompt, and
\* no callback of it can be dispatched.
C10_NoEligibleChannels ==
  \A f \in Flows :
    (sendable = {} /\ InvokedInGuild(f)) =>
      /\ out[f] = SetToBag({Plain("NoEligibleChannels")})
      /\ cview[f] = NoView /\ ns[f] = EmptyNamespace
      /\ sel[f] = <<>> /\ rview[f] = <<>> /\ act[f] = EmptyBag
      /\ stage[f] = "NotStarted"
      /\ ~ENABLED (\E value \in Channels \cup {"no_channels"}, shared \in BOOLEAN :
                     channel_select_callback(f, value, shared))

C10_Witness ==
  \E f \in Flows : sendable = {} /\ BagIn(Plain("NoEligibleChannels"), out[f])

\* the members of a list
Elems(s) == {s[i] : i \in DOMAIN s}

\* how many tokens of a mention prefix mention this role
Mentions(content, role) ==
  Cardinality({i \in DOMAIN content : content[i] = MentionToken(role)})

\* the delivery a step of flow f started, as a set of at most one element
Started(f) == {a \in BagToSet(act'[f]) : act'[f] = Put(act[f], a)}

\* C11: the message send_message_action builds has no mention prefix when the
\* role list passed is empty; otherwise the prefix holds one token per role
\* of the list, no role twice and no role that is not in the list; and the
\* message delivered carries that prefix.
C11_MentionPrefix ==
  [][\A f \in Flows :
       /\ \A k \in DOMAIN rview[f], shared \in BOOLEAN :
            \A roles \in {<<>>, rview[f][k].selected_roles} :
              send_message_action(f, k, roles, shared, TRUE) =>
                \A a \in Started(f) :
                  /\ roles = <<>> => a.content = NoContent
                  /\ Len(a.content) = Cardinality(Elems(roles))
                  /\ \A r \in Roles \cup {Everyone, "no_roles"} :
                       Mentions(a.content, r) = IF r \in Elems(roles) THEN 1 ELSE 0
       /\ \A a \in BagToSet(act[f]), confirm \in Results :
            send_message_action_resume(f, a, "ok", confirm) =>
              \E m \in BagToSet(delivered') :
                /\ delivered' = Put(delivered, m)
                /\ m.flow = f /\ m.content = a.content
    ]_vars

\* a message with a token for each of two roles and one without a prefix
\* have been delivered
C11_Witness ==
  /\ \E m \in BagToSet(delivered) :
       /\ Len(m.content) = 2
       /\ \A r \in Roles : Mentions(m.content, r) = 1
  /\ \E m \in BagToSet(delivered) : m.content = NoContent

\* C12: in a guild without assignable roles the role prompt offers the one
\* informational entry, and selecting it does what pressing skip does: the
\* step is a step of skip_button_callback (the delivery of the message
\* without a mention prefix is started) and reports no error.
C12_PlaceholderIsSkip ==
  [][\A f \in Flows :
       \A k \in DOMAIN rview[f] :
         ( /\ guildRoles = {} /\ Events < MaxEvents
           /\ role_select_callback(f, k, <<"no_roles">>) ) =>
           /\ rview[f][k].options = {"no_roles"}
           /\ \E shared \in BOOLEAN, found \in BOOLEAN :
                skip_button_callback(f, k, shared, found)
    ]_vars

\* what a flow holds and has done: its namespace, prompts, coroutines,
\* responses, stage and the messages it delivered
Own(f) ==
  <<ns[f], cview[f], sel[f], rview[f], act[f], clicks[f], out[f], raised[f], stage[f],
    [m \in {x \in BagToSet(delivered) : x.flow = f} |-> delivered[m]]>>

C14_ChannelSetOnce ==
  [][\A f \in Flows :
       cview[f].selected_channel_id # None =>
         cview'[f].selected_channel_id = cview[f].selected_channel_id]_vars

\* C15: the roles a role prompt holds as selected are among the candidate
\* roles it offers; the candidates are roles of the guild and never the
\* implicit role @everyone; the placeholder is never held as a selected role.
C15_SelectedAmongCandidates ==
  \A f \in Flows :
    \A k \in DOMAIN rview[f] :
      rview[f][k] # NoRoleView =>
        /\ Elems(rview[f][k].selected_roles) \subseteq rview[f][k].options
        /\ Everyone \notin rview[f][k].options
        /\ rview[f][k].options \in {{"no_roles"}, guildRoles}
        /\ "no_roles" \notin Elems(rview[f][k].selected_roles)
        /\ Everyone \notin Elems(rview[f][k].selected_roles)

\* a role prompt created by channel_select_callback holds a selection
C15_Witness ==
  \E f \in Flows :
    \E k \in DOMAIN rview[f] :
      /\ rview[f][k].selected_roles # <<>>
      /\ rview[f][k].options = guildRoles
      /\ BagIn(Msg("RolePrompt", guildRoles), out[f])

\* C16: the data of a flow survives the round trips between its callbacks,
\* each dispatched with an interaction of its own: a submitted form is found
\* by channel_select_callback, which never answers "failed to get message
\* content", and send_message_action finds the title and the body to read.
C16_FlowDataSurvives ==
  \A f \in Flows :
    /\ ~BagIn(Plain("FailedContent"), out[f])
    /\ "send_message_action" \notin raised[f]

\* C17: skip finalizes with the empty role list whatever was selected before:
\* when the title, the body and the channel are found, a skip click starts
\* one delivery, of the message of this prompt without a mention prefix.
C17_SkipDropsRoles ==
  [][\A f \in Flows :
       \A k \in DOMAIN rview[f], shared \in BOOLEAN, found \in BOOLEAN :
         skip_button_callback(f, k, shared, found) =>
           /\ \A a \in Started(f) : a.view = k /\ a.content = NoContent
           /\ ( /\ hasattr(ns[f], shared, "msg_title") /\ hasattr(ns[f], shared, "body")
                /\ found ) => Started(f) # {}
           /\ rview'[f][k].selected_roles = rview[f][k].selected_roles
    ]_vars

\* the one click of a flow delivered a message without a mention prefix from
\* a role prompt that holds two selected roles
C17_Witness ==
  \E f \in Flows :
    \E k \in DOMAIN rview[f] :
      /\ Len(rview[f][k].selected_roles) = 2
      /\ clicks[f] = 1 /\ act[f] = EmptyBag
      /\ \E m \in BagToSet(delivered) : m.flow = f /\ m.content = NoContent

\* C18: every execution of send_message_action that returns ends the flow:
\* whether it ends with the confirmation, the permission error, another
\* error or because the channel is no longer found, the role prompt it was
\* called from is finished.
C18_FinalizeStops ==
  [][\A f \in Flows :
       /\ \A k \in DOMAIN rview[f], shared \in BOOLEAN, found \in BOOLEAN :
            ( /\ \/ send_button_callback(f, k, shared, found)
                 \/ skip_button_callback(f, k, shared, found)
              /\ raised' = raised /\ Started(f) = {} ) =>
              ~Live(rview'[f][k])
       /\ \A a \in BagToSet(act[f]), result \in Results, confirm \in Results :
            send_message_action_resume(f, a, result, confirm) =>
              ~Live(rview'[f][a.view])
    ]_vars

\* the response a step of flow f showed, as a set of at most one element
Shown(f) == {m \in BagToSet(out'[f]) : out'[f] = Put(out[f], m)}

\* C19: an error response of send_message_action means that nothing was
\* delivered by that execution, also when an exception is raised after the
\* delivery succeeded.
C19_ErrorMeansNotDelivered ==
  [][\A f \in Flows :
       \A a \in BagToSet(act[f]), result \in Results, confirm \in Results :
         ( /\ send_message_action_resume(f, a, result, confirm)
           /\ \E m \in Shown(f) : m.kind \in {"PermissionDenied", "DeliveryError"} ) =>
           delivered' = delivered
    ]_vars

\* C20: send mentions the roles of the most recent role selection: a
\* selection replaces what was selected before, a selection of the
\* placeholder leaves no role selected, nothing else changes the selected
\* roles, and the message a send click starts mentions each selected role
\* once and no other role (no role at all before the first selection).
C20_SendMentionsLatest ==
  [][\A f \in Flows :
       \A k \in DOMAIN rview[f] :
         /\ \A values \in Values(Roles \cup {"no_roles"}, Cardinality(Roles)) :
              role_select_callback(f, k, values) =>
                rview'[f][k].selected_roles =
                  IF "no_roles" \in Elems(values) THEN <<>> ELSE values
         /\ (\A values \in Values(Roles \cup {"no_roles"}, Cardinality(Roles)) :
               ~role_select_callback(f, k, values)) =>
              rview'[f][k].selected_roles = rview[f][k].selected_roles
         /\ \A shared \in BOOLEAN, found \in BOOLEAN :
              send_button_callback(f, k, shared, found) =>
                \A a \in Started(f) :
                  /\ \A r \in Roles \cup {Everyone, "no_roles"} :
                       Mentions(a.content, r) =
                         IF r \in Elems(rview[f][k].selected_roles) THEN 1 ELSE 0
                  /\ Len(a.content) = Len(rview[f][k].selected_roles)
                  /\ rview[f][k].feedback = None => a.content = NoContent
    ]_vars

\* two send clicks on one prompt delivered one message that mentions the
\* first role only and one that mentions the second role only
C20_Witness ==
  \E f \in Flows, r \in Roles, q \in Roles :
    /\ r # q
    /\ \E m \in BagToSet(delivered) : m.flow = f /\ m.content = <<MentionToken(r)>>
    /\ \E m \in BagToSet(delivered) : m.flow = f /\ m.content = <<MentionToken(q)>>
    /\ DOMAIN rview[f] = {1}

====
